---- MODULE Spec2Model ----
(***************************************************************************)
(* Model of run_ensemble (examples/02_ensemble_workflow.py): the ensemble  *)
(* inference workflow that fetches an initial condition, broadcasts it     *)
(* over an ensemble dimension, declares the output schema to the IO        *)
(* backend, perturbs the ensemble and writes nsteps+1 forecast steps.      *)
(*                                                                         *)
(* Tensors are records [shape, data] with data the row-major flattening,   *)
(* coordinate systems are ordered sequences of [name, vals] records        *)
(* (Python dicts keep insertion order).                                    *)
(***************************************************************************)
EXTENDS Integers, Sequences, FiniteSets, TLC

\* ---------------------------------------------------------------- bounds
MaxTimes == 2
MaxSteps == 2
MaxEns == 2
MaxNoise == 1

\* ------------------------------------------------- collaborator constants
\* prognostic.output_coords["lead_time"]: the native step, in hours
LeadTimeStep == 6
\* prognostic.input_coords["variable"], as channel ids
ProgVariable == <<1, 2>>
\* prognostic.input_coords["lat"] / ["lon"]
ProgLat == <<90>>
ProgLon == <<0>>
\* modulus keeping the field values of the model finite
FieldMod == 97

TimeStrs == {"2024-01-01", "2024-01-02", "garbage"}

NoVal == [shape |-> <<>>, data |-> <<>>]
NoIter == [x |-> NoVal, coords |-> <<>>, n |-> 0, live |-> FALSE]
NoSink == [declared |-> 0, coords |-> <<>>, array_name |-> <<>>, writes |-> <<>>]

\* ------------------------------------------------------- sequence helpers
RECURSIVE Prod(_)
Prod(s) == IF s = <<>> THEN 1 ELSE Head(s) * Prod(Tail(s))

RECURSIVE Concat(_, _)
Concat(s, n) == IF n = 0 THEN <<>> ELSE s \o Concat(s, n - 1)

RECURSIVE SelectIdx(_, _, _)
\* the elements of s whose 1-based position k >= from satisfies keep[k]
SelectIdx(s, keep, from) ==
    IF from > Len(s) THEN <<>>
    ELSE (IF keep[from] THEN <<s[from]>> ELSE <<>>) \o SelectIdx(s, keep, from + 1)

RemoveAt(s, d) == SubSeq(s, 1, d - 1) \o SubSeq(s, d + 1, Len(s))

Count(s, v) == Cardinality({k \in 1..Len(s) : s[k] = v})

\* ---------------------------------------------------- ordered dict (coords)
Keys(c) == [k \in 1..Len(c) |-> c[k].name]
HasKey(c, name) == \E k \in 1..Len(c) : c[k].name = name
KeyIndex(c, name) == CHOOSE k \in 1..Len(c) : c[k].name = name
Get(c, name) == c[KeyIndex(c, name)].vals
\* c[name] = vals: an existing key keeps its position, a new key goes last
Set(c, name, vals) ==
    IF HasKey(c, name)
    THEN [k \in 1..Len(c) |-> IF c[k].name = name THEN [name |-> name, vals |-> vals] ELSE c[k]]
    ELSE Append(c, [name |-> name, vals |-> vals])
\* c.pop(name)
Pop(c, name) == RemoveAt(c, KeyIndex(c, name))
RECURSIVE DictUnion(_, _)
\* a | b: keys of a first (values of b win), then the keys only b has
DictUnion(a, b) == IF b = <<>> THEN a ELSE DictUnion(Set(a, Head(b).name, Head(b).vals), Tail(b))
ShapeOf(c) == [k \in 1..Len(c) |-> Len(c[k].vals)]

\* ------------------------------------------------------------ tensor helpers
Stride(shape, d) == Prod(SubSeq(shape, d + 1, Len(shape)))
\* 0-based index along dimension d of the element at flat position k (1-based)
IndexAt(shape, k, d) == ((k - 1) \div Stride(shape, d)) % shape[d]
\* x.unsqueeze(0)
unsqueeze(t) == [shape |-> <<1>> \o t.shape, data |-> t.data]
\* x.repeat(n, 1, ..., 1)
repeat(t, n) == [shape |-> <<n * Head(t.shape)>> \o Tail(t.shape), data |-> Concat(t.data, n)]
\* the slice of t with index j (0-based) along dimension d, dimension d removed
Slice(t, d, j) ==
    [shape |-> RemoveAt(t.shape, d),
     data |-> SelectIdx(t.data, [k \in 1..Len(t.data) |-> IndexAt(t.shape, k, d) = j], 1)]
\* the sub-tensor of t keeping the indices < n along dimension d
Narrow(t, d, n) ==
    [shape |-> [k \in 1..Len(t.shape) |-> IF k = d THEN n ELSE t.shape[k]],
     data |-> SelectIdx(t.data, [k \in 1..Len(t.data) |-> IndexAt(t.shape, k, d) < n], 1)]
\* member e (0-based) of a tensor whose leading dimension is the ensemble
Member(t, e) == Slice(t, 1, e)

\* ------------------------------------------------------------- collaborators
\* earth2studio.utils.time.to_time_array: fails on an empty or unparsable list
TimeOk(t) == Len(t) > 0 /\ \A k \in 1..Len(t) : t[k] # "garbage"
ParseTime(s) == IF s = "2024-01-01" THEN 1 ELSE 2
to_time_array(t) == [k \in 1..Len(t) |-> ParseTime(t[k])]

\* the data source's value at (time t, channel v, latitude index la)
FieldValue(t, v, la) == (10 * t + 3 * v + la) % FieldMod

\* earth2studio.data.fetch_data: (x, coords) on the data source's own grid
FetchCoords(t, lat) ==
    << [name |-> "time", vals |-> t],
       [name |-> "lead_time", vals |-> <<0>>],
       [name |-> "variable", vals |-> ProgVariable],
       [name |-> "lat", vals |-> lat],
       [name |-> "lon", vals |-> ProgLon] >>
FetchX(t, lat) ==
    LET shape == ShapeOf(FetchCoords(t, lat))
    IN [shape |-> shape,
        data |-> [k \in 1..Prod(shape) |->
                    FieldValue(t[IndexAt(shape, k, 1) + 1],
                               ProgVariable[IndexAt(shape, k, 3) + 1],
                               IndexAt(shape, k, 4))]]

\* earth2studio.utils.coords.map_coords: select the prognostic's lat/lon
MapCoordsOk(c) ==
    /\ \A k \in 1..Len(ProgLat) : k <= Len(Get(c, "lat")) /\ Get(c, "lat")[k] = ProgLat[k]
    /\ Get(c, "lon") = ProgLon
map_coords_x(t, c) == Narrow(t, KeyIndex(c, "lat"), Len(ProgLat))
map_coords_c(c) == Set(c, "lat", ProgLat)

\* a perturbation field of the state's shape: member e gets the constant n[e+1]
NoiseField(shape, n) ==
    [shape |-> shape, data |-> [k \in 1..Prod(shape) |-> n[IndexAt(shape, k, 1) + 1]]]
IsZero(t) == \A k \in 1..Len(t.data) : t.data[k] = 0

\* one step of the prognostic model; a stochastic model also shifts member j
StepX(t, j) ==
    [shape |-> t.shape,
     data |-> [k \in 1..Len(t.data) |->
                 (3 * t.data[k] + 1 + (IF j > 0 /\ IndexAt(t.shape, k, 1) = j - 1 THEN 1 ELSE 0))
                    % FieldMod]]
StepCoords(c) == Set(c, "lead_time", <<Get(c, "lead_time")[1] + LeadTimeStep>>)

\* earth2studio.utils.coords.extract_coords: one tensor per channel, the
\* coordinates without the variable dimension, and the channel names
extract_coords(t, c) ==
    LET d == KeyIndex(c, "variable")
    IN [x |-> [v \in 1..Len(Get(c, "variable")) |-> Slice(t, d, v - 1)],
        coords |-> Pop(c, "variable"),
        array_name |-> Get(c, "variable")]

\* ------------------------------------------------------ run_ensemble pieces
\* slip: the member index leaks into the broadcast values
ExpandX_indexed(t, n) ==
    [shape |-> <<n>> \o t.shape,
     data |-> [k \in 1..(n * Len(t.data)) |->
                 t.data[((k - 1) % Len(t.data)) + 1] + ((k - 1) \div Len(t.data))]]
\* x.unsqueeze(0).repeat(nensemble, *([1] * x.ndim))
ExpandX(t, n) == repeat(unsqueeze(t), n)
\* slip: one ensemble coordinate too many, np.arange(nensemble + 1)
ExpandCoords_extra(c, n) ==
    DictUnion(<<[name |-> "ensemble", vals |-> [k \in 1..(n + 1) |-> k - 1]]>>, c)
\* slip: operands swapped, coords | {"ensemble": ...} puts the ensemble last
ExpandCoords_last(c, n) ==
    DictUnion(c, <<[name |-> "ensemble", vals |-> [k \in 1..n |-> k - 1]]>>)
\* {"ensemble": np.arange(nensemble)} | coords
ExpandCoords(c, n) ==
    DictUnion(<<[name |-> "ensemble", vals |-> [k \in 1..n |-> k - 1]]>>, c)
\* slip: range(nsteps) leaves out the last lead time
LeadTimeAxis_short(n) == [k \in 1..n |-> LeadTimeStep * (k - 1)]
\* [prognostic.output_coords["lead_time"] * i for i in range(nsteps + 1)]
LeadTimeAxis(n) == [k \in 1..(n + 1) |-> LeadTimeStep * (k - 1)]
\* total_coords = coords.copy(); total_coords["lead_time"] = ...
TotalCoords(c, n) == Set(c, "lead_time", LeadTimeAxis(n))
\* slip: x + noise computed and dropped, x itself left as it was
AddInPlace_dropped(t, nz) == t
\* x += perturbation_method(x, coords)
AddInPlace(t, nz) == [shape |-> t.shape, data |-> [k \in 1..Len(t.data) |-> t.data[k] + nz.data[k]]]
\* slip: off by one, the loop runs one step too far
LoopExit_late(s, n) == s = n + 1
\* if step == nsteps: break
LoopExit(s, n) == s = n

\* ------------------------------------------------------------------- state
VARIABLES args, dataLat, progDet, pc, time, x, coords, total_coords, var_names,
          noise, model, step, io, calls, err, returned, run, prev

vars == <<args, dataLat, progDet, pc, time, x, coords, total_coords, var_names,
          noise, model, step, io, calls, err, returned, run, prev>>

env == <<args, dataLat, progDet, run, prev>>

RECURSIVE SeqsUpTo(_, _)
SeqsUpTo(S, n) ==
    IF n = 0 THEN {<<>>}
    ELSE LET P == SeqsUpTo(S, n - 1) IN P \cup {Append(s, e) : s \in P, e \in S}

\* the locals of run_ensemble at entry
Entry ==
    /\ pc = "to_time_array"
    /\ time = args.time
    /\ x = NoVal
    /\ coords = <<>>
    /\ total_coords = <<>>
    /\ var_names = <<>>
    /\ noise = NoVal
    /\ model = NoIter
    /\ step = -1
    /\ io = NoSink
    /\ calls = <<>>
    /\ err = "none"
    /\ returned = FALSE

Init ==
    /\ args \in [time : SeqsUpTo(TimeStrs, MaxTimes), nsteps : 0..MaxSteps, nensemble : 1..MaxEns]
    /\ dataLat \in {ProgLat, ProgLat \o <<0>>}
    /\ progDet \in BOOLEAN
    /\ run = 1
    /\ prev = [io |-> NoSink, zero |-> FALSE]
    /\ Entry

\* a collaborator call returns and run_ensemble goes on at position to
Ok(call, to) ==
    /\ pc' = to
    /\ calls' = Append(calls, call)
    /\ UNCHANGED err

\* a collaborator call raises: the exception leaves run_ensemble
Raise(call) ==
    /\ pc' = "raised"
    /\ calls' = Append(calls, call)
    /\ err' = call


\* slip: the time list goes on to the fetch whatever the parse said
ToTimeArray_unchecked ==
    /\ pc = "to_time_array"
    /\ time' = [k \in 1..Len(time) |-> IF time[k] = "garbage" THEN 0 ELSE ParseTime(time[k])]
    /\ Ok("to_time_array", "fetch_data")
    /\ UNCHANGED <<env, x, coords, total_coords, var_names, noise, model, step, io, returned>>

\* time = to_time_array(time)
ToTimeArray ==
    /\ pc = "to_time_array"
    /\ IF TimeOk(time)
       THEN /\ time' = to_time_array(time)
            /\ Ok("to_time_array", "fetch_data")
       ELSE /\ Raise("to_time_array")
            /\ UNCHANGED time
    /\ UNCHANGED <<env, x, coords, total_coords, var_names, noise, model, step, io, returned>>

\* x, coords = fetch_data(source=data, time=time, ...)
FetchData ==
    /\ pc = "fetch_data"
    /\ \/ /\ x' = FetchX(time, dataLat)
          /\ coords' = FetchCoords(time, dataLat)
          /\ Ok("fetch_data", "expand")
       \/ /\ Raise("fetch_data")
          /\ UNCHANGED <<x, coords>>
    /\ UNCHANGED <<env, time, total_coords, var_names, noise, model, step, io, returned>>

\* x = x.unsqueeze(0).repeat(...); coords = {"ensemble": ...} | coords
Expand ==
    /\ pc = "expand"
    /\ x' = ExpandX(x, args.nensemble)
    /\ coords' = ExpandCoords(coords, args.nensemble)
    /\ pc' = "add_array"
    /\ UNCHANGED <<env, time, total_coords, var_names, noise, model, step, io, calls, err,
                   returned>>

\* total_coords = ...; var_names = total_coords.pop("variable");
\* io.add_array(total_coords, var_names)
AddArray ==
    /\ pc = "add_array"
    /\ total_coords' = Pop(TotalCoords(coords, args.nsteps), "variable")
    /\ var_names' = Get(TotalCoords(coords, args.nsteps), "variable")
    /\ \/ /\ io' = [io EXCEPT !.declared = @ + 1,
                              !.coords = total_coords',
                              !.array_name = var_names']
          /\ Ok("add_array", "map_coords")
       \/ /\ Raise("add_array")
          /\ UNCHANGED io
    /\ UNCHANGED <<env, time, x, coords, noise, model, step, returned>>

\* x, coords = map_coords(x, coords, prognostic.input_coords)
MapCoords ==
    /\ pc = "map_coords"
    /\ \/ /\ MapCoordsOk(coords)
          /\ x' = map_coords_x(x, coords)
          /\ coords' = map_coords_c(coords)
          /\ Ok("map_coords", "perturb")
       \/ /\ Raise("map_coords")
          /\ UNCHANGED <<x, coords>>
    /\ UNCHANGED <<env, time, total_coords, var_names, noise, model, step, io, returned>>

\* x += perturbation_method(x, coords): the method returns a field that is
\* added in place, or a field of another shape (the addition fails), or fails
Perturb ==
    /\ pc = "perturb"
    /\ \/ /\ \E n \in [1..args.nensemble -> 0..MaxNoise] :
                /\ noise' = NoiseField(x.shape, n)
                /\ x' = AddInPlace(x, noise')
          /\ Ok("perturbation_method", "create_iterator")
       \/ /\ noise' = [shape |-> Tail(x.shape), data |-> [k \in 1..Prod(Tail(x.shape)) |-> 0]]
          /\ Raise("perturbation_method")
          /\ UNCHANGED x
       \/ /\ Raise("perturbation_method")
          /\ UNCHANGED <<x, noise>>
    /\ UNCHANGED <<env, time, coords, total_coords, var_names, model, step, io, returned>>

\* model = prognostic.create_iterator(x, coords)
CreateIterator ==
    /\ pc = "create_iterator"
    /\ \/ /\ model' = [x |-> x, coords |-> coords, n |-> 0, live |-> TRUE]
          /\ Ok("create_iterator", "next")
       \/ /\ Raise("create_iterator")
          /\ UNCHANGED model
    /\ UNCHANGED <<env, time, x, coords, total_coords, var_names, noise, step, io, returned>>

\* slip: the loop prefetches, pulling a second element before the write
IterNext_prefetch ==
    /\ pc = "next"
    /\ \/ /\ model' = [model EXCEPT
                         !.x = IF model.n = 0 THEN StepX(@, 0) ELSE StepX(StepX(@, 0), 0),
                         !.coords = IF model.n = 0 THEN StepCoords(@) ELSE StepCoords(StepCoords(@)),
                         !.n = @ + 2]
          /\ x' = model'.x
          /\ coords' = model'.coords
          /\ step' = step + 1
          /\ pc' = "write"
          /\ calls' = calls \o <<"next", "next">>
          /\ UNCHANGED err
       \/ /\ Raise("next")
          /\ UNCHANGED <<x, coords, step, model>>
    /\ UNCHANGED <<env, time, total_coords, var_names, noise, io, returned>>

\* for step, (x, coords) in enumerate(model): the iterator yields the state
\* it was given first, then one prognostic step per element
IterNext ==
    /\ pc = "next"
    /\ \/ /\ \E j \in 0..(IF progDet THEN 0 ELSE args.nensemble) :
                model' = [model EXCEPT
                            !.x = IF model.n = 0 THEN @ ELSE StepX(@, j),
                            !.coords = IF model.n = 0 THEN @ ELSE StepCoords(@),
                            !.n = @ + 1]
          /\ x' = model'.x
          /\ coords' = model'.coords
          /\ step' = step + 1
          /\ Ok("next", "write")
       \/ /\ Raise("next")
          /\ UNCHANGED <<x, coords, step, model>>
    /\ UNCHANGED <<env, time, total_coords, var_names, noise, io, returned>>

\* slip: the schema is declared again ahead of every write
Write_redeclare ==
    /\ pc = "write"
    /\ \/ /\ io' = [io EXCEPT !.declared = @ + 1,
                              !.writes = Append(@, extract_coords(x, coords))]
          /\ pc' = IF LoopExit(step, args.nsteps) THEN "return" ELSE "next"
          /\ calls' = calls \o <<"add_array", "write">>
          /\ UNCHANGED err
       \/ /\ Raise("write")
          /\ UNCHANGED io
    /\ UNCHANGED <<env, time, x, coords, total_coords, var_names, noise, model, step, returned>>

\* slip: a failed write is caught and the loop goes on
Write_swallow ==
    /\ pc = "write"
    /\ \/ /\ io' = [io EXCEPT !.writes = Append(@, extract_coords(x, coords))]
          /\ Ok("write", IF LoopExit(step, args.nsteps) THEN "return" ELSE "next")
       \/ /\ pc' = IF LoopExit(step, args.nsteps) THEN "return" ELSE "next"
          /\ calls' = Append(calls, "write")
          /\ err' = "write"
          /\ UNCHANGED io
    /\ UNCHANGED <<env, time, x, coords, total_coords, var_names, noise, model, step, returned>>

\* io.write(*extract_coords(x, coords)); pbar.update(1);
\* if step == nsteps: break
Write ==
    /\ pc = "write"
    /\ \/ /\ io' = [io EXCEPT !.writes = Append(@, extract_coords(x, coords))]
          /\ Ok("write", IF LoopExit(step, args.nsteps) THEN "return" ELSE "next")
       \/ /\ Raise("write")
          /\ UNCHANGED io
    /\ UNCHANGED <<env, time, x, coords, total_coords, var_names, noise, model, step, returned>>

\* return io
Return ==
    /\ pc = "return"
    /\ returned' = TRUE
    /\ pc' = "done"
    /\ UNCHANGED <<env, time, x, coords, total_coords, var_names, noise, model, step, io, calls,
                   err>>

\* the caller runs run_ensemble once more with the same arguments and fresh
\* collaborators of the same kind, keeping what the first run's sink received
Rerun ==
    /\ pc = "done"
    /\ run = 1
    /\ run' = 2
    /\ prev' = [io |-> io, zero |-> IsZero(noise)]
    /\ pc' = "to_time_array"
    /\ time' = args.time
    /\ x' = NoVal
    /\ coords' = <<>>
    /\ total_coords' = <<>>
    /\ var_names' = <<>>
    /\ noise' = NoVal
    /\ model' = NoIter
    /\ step' = -1
    /\ io' = NoSink
    /\ calls' = <<>>
    /\ err' = "none"
    /\ returned' = FALSE
    /\ UNCHANGED <<args, dataLat, progDet>>

Next ==
    \/ ToTimeArray
    \/ FetchData
    \/ Expand
    \/ AddArray
    \/ MapCoords
    \/ Perturb
    \/ CreateIterator
    \/ IterNext
    \/ Write
    \/ Return

NextTwo ==
    \/ Next
    \/ Rerun

Spec == Init /\ [][Next]_vars

\* the steps of run_ensemble are sequential code: an enabled step is taken
FairSpec == Init /\ [][Next]_vars /\ WF_vars(Next)

\* two calls of run_ensemble in a row
TwoRunSpec == Init /\ [][NextTwo]_vars

TypeOK ==
    /\ pc \in {"to_time_array", "fetch_data", "expand", "add_array", "map_coords", "perturb",
               "create_iterator", "next", "write", "return", "done", "raised"}
    /\ step \in -1..(MaxSteps + 1)
    /\ run \in {1, 2}
    /\ (err = "none") = (pc # "raised")

\* ------------------------------------------------------------------ claims
Writes == io.writes
NWrites == Len(io.writes)
\* the lead-time indices of the declared schema that write k targets
LeadIndices(k) ==
    {i \in 0..(Len(Get(io.coords, "lead_time")) - 1) :
        <<Get(io.coords, "lead_time")[i + 1]>> = Get(Writes[k].coords, "lead_time")}
Finished == pc = "done"

\* C1: a completed run has made exactly nsteps+1 writes; at any moment the
\* k-th write (k = 0..) targets lead-time index k and no other, so the lead
\* times written are strictly increasing and never repeat
C1_Writes ==
    /\ \A k \in 1..NWrites : LeadIndices(k) = {k - 1}
    /\ \A k \in 1..(NWrites - 1) :
          Get(Writes[k].coords, "lead_time")[1] < Get(Writes[k + 1].coords, "lead_time")[1]
    /\ NWrites = Count(calls, "write") - (IF err = "write" THEN 1 ELSE 0)
    /\ Finished => NWrites = args.nsteps + 1
C1_Witness == Finished /\ args.nsteps = 2 /\ NWrites = 3

\* positions of a call in the trace of collaborator calls
Pos(call) == {k \in 1..Len(calls) : calls[k] = call}

\* C2: the schema is declared at most once, exactly once in a run that
\* writes or completes, every write comes after the declaration, and the
\* declared schema does not change once there is a write
C2_DeclaredOnce ==
    /\ [](/\ Cardinality(Pos("add_array")) <= 1
          /\ io.declared <= 1
          /\ (Pos("write") # {} \/ Finished) =>
                /\ Cardinality(Pos("add_array")) = 1
                /\ io.declared = 1
                /\ \A a \in Pos("add_array"), w \in Pos("write") : a < w)
    /\ [][NWrites > 0 => /\ io'.declared = io.declared
                         /\ io'.coords = io.coords
                         /\ io'.array_name = io.array_name]_vars
C2_Witness == Finished /\ io.declared = 1 /\ NWrites >= 2

\* C3: every write has an ensemble coordinate of nensemble values and
\* tensors whose leading (ensemble) dimension has size nensemble
C3_EnsembleSize ==
    \A k \in 1..NWrites :
        /\ Writes[k].coords[1].name = "ensemble"
        /\ Len(Get(Writes[k].coords, "ensemble")) = args.nensemble
        /\ \A v \in 1..Len(Writes[k].x) :
              /\ Writes[k].x[v].shape[1] = args.nensemble
              /\ Len(Writes[k].x[v].data) = Prod(Writes[k].x[v].shape)
C3_Witness == NWrites = 3 /\ args.nensemble = 2 /\ Len(time) = 2

\* C4: once a collaborator call has failed the run is over: the failing
\* call is the last call made, nothing changes afterwards and the sink is
\* not returned
C4_Abort ==
    /\ [](err # "none" =>
            /\ pc = "raised"
            /\ ~returned
            /\ calls # <<>>
            /\ calls[Len(calls)] = err)
    /\ [][err # "none" => UNCHANGED vars]_vars
C4_Witness == err = "write" /\ NWrites = 1 /\ Len(calls) = 10

\* C5: with an empty time list the run fails in to_time_array: the data
\* source is never fetched from, the sink is never declared to or written
C5_EmptyTime ==
    args.time = <<>> =>
        /\ pc \in {"to_time_array", "raised"}
        /\ pc = "raised" => err = "to_time_array"
        /\ Pos("fetch_data") = {} /\ Pos("add_array") = {} /\ Pos("write") = {}
        /\ io = NoSink
        /\ ~returned
C5_Witness == args.time = <<>> /\ pc = "raised" /\ calls = <<"to_time_array">>

\* flat position (1-based) of the element of a tensor at the 0-based indices idx
RECURSIVE FlatOffset(_, _, _)
FlatOffset(shape, idx, d) ==
    IF d > Len(shape) THEN 0 ELSE idx[d] * Stride(shape, d) + FlatOffset(shape, idx, d + 1)
At(t, idx) == t.data[1 + FlatOffset(t.shape, idx, 1)]

\* shape of a written per-channel tensor: (ensemble, time, lead_time, lat, lon)
WrittenShape == <<args.nensemble, Len(time), 1, Len(ProgLat), Len(ProgLon)>>

\* C6: the first write (lead-time index 0) is, element by element, the
\* fetched initial condition plus the perturbation, with no prognostic step
\* applied; with nsteps = 0 it is the only write of a completed run
C6_FirstWrite ==
    /\ NWrites > 0 =>
          /\ Get(Writes[1].coords, "lead_time") = <<0>>
          /\ Writes[1].array_name = ProgVariable
          /\ \A v \in 1..Len(ProgVariable) :
                /\ Writes[1].x[v].shape = WrittenShape
                /\ \A e \in 0..(args.nensemble - 1), t \in 0..(Len(time) - 1),
                      la \in 0..(Len(ProgLat) - 1) :
                      At(Writes[1].x[v], <<e, t, 0, la, 0>>)
                        = FieldValue(time[t + 1], ProgVariable[v], la)
                            + At(noise, <<e, t, 0, v - 1, la, 0>>)
    /\ (Finished /\ args.nsteps = 0) => NWrites = 1
C6_Witness ==
    /\ Finished /\ args.nsteps = 0 /\ NWrites = 1 /\ args.nensemble = 2
    /\ ~IsZero(noise) /\ Len(dataLat) = 2

\* C7: right after the broadcast and before the perturbation every member
\* is the fetched initial condition, and the ensemble coordinate
\* 0..nensemble-1 is the first dimension, ahead of the fetch coordinates
C7_Broadcast ==
    pc = "add_array" =>
        /\ x.shape = <<args.nensemble>> \o ShapeOf(FetchCoords(time, dataLat))
        /\ Len(x.data) = Prod(x.shape)
        /\ \A e \in 0..(args.nensemble - 1) : Member(x, e) = FetchX(time, dataLat)
        /\ coords[1] = [name |-> "ensemble", vals |-> [k \in 1..args.nensemble |-> k - 1]]
        /\ Tail(coords) = FetchCoords(time, dataLat)
        /\ noise = NoVal
C7_Witness == pc = "add_array" /\ args.nensemble = 2 /\ Len(time) = 2 /\ Len(dataLat) = 2

\* all members of every tensor of every write are equal
MembersEqual ==
    \A k \in 1..NWrites : \A v \in 1..Len(Writes[k].x) :
        \A e \in 1..(args.nensemble - 1) :
            Member(Writes[k].x[v], e) = Member(Writes[k].x[v], 0)

C9_Schema ==
    /\ [](io.declared > 0 =>
            /\ Keys(io.coords) = <<"ensemble", "time", "lead_time", "lat", "lon">>
            /\ Get(io.coords, "ensemble") = [k \in 1..args.nensemble |-> k - 1]
            /\ Get(io.coords, "time") = time
            /\ Get(io.coords, "lat") = dataLat
            /\ Get(io.coords, "lon") = ProgLon
            /\ Len(Get(io.coords, "lead_time")) = args.nsteps + 1
            /\ \A i \in 0..args.nsteps : Get(io.coords, "lead_time")[i + 1] = i * LeadTimeStep
            /\ io.array_name = ProgVariable
            /\ total_coords = io.coords
            /\ var_names = io.array_name
            /\ HasKey(coords, "variable")
            /\ Get(coords, "variable") = ProgVariable)
    /\ [][pc = "add_array" => (coords' = coords /\ x' = x)]_vars
C9_Witness ==
    /\ pc = "map_coords" /\ io.declared = 1 /\ args.nsteps = 2
    /\ Get(io.coords, "lead_time") = <<0, 6, 12>>
    /\ Keys(coords) = <<"ensemble", "time", "lead_time", "variable", "lat", "lon">>

\* C10: the loop ends; it never asks the iterator for more than nsteps+1
\* elements and a completed run has pulled exactly nsteps+1; every element
\* is written before the next is requested; the iterator is created once,
\* after the perturbation
C10_Loop ==
    /\ <>(pc \in {"done", "raised"})
    /\ [](/\ Cardinality(Pos("next")) <= args.nsteps + 1
          /\ model.n <= args.nsteps + 1
          /\ step = model.n - 1
          /\ Finished => (model.n = args.nsteps + 1 /\ Cardinality(Pos("next")) = args.nsteps + 1)
          /\ Cardinality(Pos("next")) - Cardinality(Pos("write")) \in {0, 1}
          /\ \A a, b \in Pos("next") : a < b => \E w \in Pos("write") : a < w /\ w < b
          /\ Cardinality(Pos("create_iterator")) <= 1
          /\ \A c \in Pos("create_iterator") :
                /\ \E q \in Pos("perturbation_method") : q < c
                /\ \A n \in Pos("next") : c < n)
C10_Witness == Finished /\ args.nsteps = 2 /\ model.n = 3 /\ Cardinality(Pos("next")) = 3
====
